---- MODULE Spec2Model ----
(***************************************************************************)
(* Model of Glycan/extract_info: the batch tool (extract_info.py) and the  *)
(* name extraction engine (extract_names.py).                              *)
(*                                                                         *)
(* A Python str is a sequence of one-character strings; a Python list is a *)
(* sequence.  An operation that can raise returns a record whose field     *)
(* "raised" names the exception ("none" when it returns normally).         *)
(***************************************************************************)
EXTENDS Integers, Sequences, FiniteSets, TLC

VARIABLES
  pc,        \* position of the running call
  dtext,     \* space_dashes: the input text
  dout,      \* space_dashes: results of the successive applications
  fi_google, \* fuzzy_intersect / remove_nonlatin: google_names argument
  fi_crude,  \* fuzzy_intersect / remove_nonlatin: crude_names argument
  fi_out,    \* fuzzy_intersect: returned list
  rn_out,    \* remove_nonlatin: returned list
  collected, \* nltk_extract_names: names collected by the chunk loop
  dedup,     \* nltk_extract_names: outcome of the de-duplication loop
  gtext,     \* GOOGLE_EXTRACTORS: text argument
  kg,        \* google_analyze.extract_entities: the service's answers
  gret,      \* GOOGLE_EXTRACTORS: value returned by each entry
  stage1,    \* extract_names: name list of each Stage-1 variant for the text
  stage2,    \* extract_names: name list of each Stage-2 variant for the text
  window,    \* extract_names: <<min_names, max_names>>
  eret,      \* extract_names: outcome of the call
  log,       \* utils.Logger stream: strategy names in call order
  lines,     \* main: lines still to process
  dnames,    \* decide_exit_type: names argument of a direct call
  entries,   \* main / metrics: records
  table,     \* save_entries: rows written to the output file
  printed,   \* metrics: labels whose percentage was printed
  mret       \* main / metrics: outcome

vars == <<pc, dtext, dout, fi_google, fi_crude, fi_out, rn_out, collected,
          dedup, gtext, kg, gret, stage1, stage2, window, eret, log,
          lines, dnames, entries, table, printed, mret>>

dashVars == <<dtext, dout>>
consVars == <<fi_google, fi_crude, fi_out, rn_out>>
nltkVars == <<collected, dedup>>
googVars == <<gtext, kg, gret>>
engVars  == <<stage1, stage2, window, eret, log>>
mainVars == <<lines, dnames, entries, table, printed, mret>>

----------------------------------------------------------------------------
(* Bounds *)
MaxLen == 4        \* longest text given to space_dashes
MaxNames == 2      \* longest name list given to fuzzy_intersect / remove_nonlatin
MaxCollected == 3  \* most names collected by the chunk loop of nltk_extract_names
MaxText == 3       \* longest text given to the GOOGLE_EXTRACTORS
MaxContacts == 2   \* most emails, and most phones, found in one line
MaxLines == 2      \* most lines of the input table
MaxEntries == 2    \* most records given to metrics in a direct call

----------------------------------------------------------------------------
(* Sequences *)

RECURSIVE SeqsUpTo(_, _)
SeqsUpTo(S, n) ==
  IF n = 0 THEN {<<>>}
  ELSE LET shorter == SeqsUpTo(S, n - 1)
       IN  shorter \cup {Append(s, x) : s \in {t \in shorter : Len(t) = n - 1}, x \in S}

----------------------------------------------------------------------------
(* extract_info.py: space_dashes *)

DashChars == {"a", " ", "-", "\t"}

\* [^ -] : any character but a space and a dash
not_space_dash(c) == c \notin {" ", "-"}

\* mutation: the class of the second pattern written [^-]
RECURSIVE re_sub_after_dash_nospace(_)
re_sub_after_dash_nospace(s) ==
  IF s = <<>> THEN <<>>
  ELSE IF Len(s) >= 2 /\ s[1] = "-" /\ s[2] # "-"
       THEN <<"-", " ", s[2]>> \o re_sub_after_dash_nospace(SubSeq(s, 3, Len(s)))
       ELSE <<s[1]>> \o re_sub_after_dash_nospace(Tail(s))

\* re.sub(r"([^ -])-", r"\1 -", s): leftmost non-overlapping matches
RECURSIVE re_sub_before_dash(_)
re_sub_before_dash(s) ==
  IF s = <<>> THEN <<>>
  ELSE IF Len(s) >= 2 /\ not_space_dash(s[1]) /\ s[2] = "-"
       THEN <<s[1], " ", "-">> \o re_sub_before_dash(SubSeq(s, 3, Len(s)))
       ELSE <<s[1]>> \o re_sub_before_dash(Tail(s))

\* re.sub(r"-([^ -])", r"- \1", s)
RECURSIVE re_sub_after_dash(_)
re_sub_after_dash(s) ==
  IF s = <<>> THEN <<>>
  ELSE IF Len(s) >= 2 /\ s[1] = "-" /\ not_space_dash(s[2])
       THEN <<"-", " ", s[2]>> \o re_sub_after_dash(SubSeq(s, 3, Len(s)))
       ELSE <<s[1]>> \o re_sub_after_dash(Tail(s))

space_dashes(text) == re_sub_after_dash(re_sub_before_dash(text))

----------------------------------------------------------------------------
(* extract_names.py: general functions on str *)

\* "U+0439" stands for one character outside string.printable (a Cyrillic
\* letter); every other modelled character is in string.printable.
NonLatinChar == "U+0439"
string_printable ==
  {"a", "b", "B", "4", " ", "\t", "-", "'", ".", "M", "y", "n", "m", "e", "i", "s"}

\* str.split(): the maximal runs of non-whitespace characters
RECURSIVE split_from(_, _)
split_from(s, word) ==
  IF s = <<>> THEN (IF word = <<>> THEN <<>> ELSE <<word>>)
  ELSE IF s[1] \in {" ", "\t"}
       THEN (IF word = <<>> THEN <<>> ELSE <<word>>) \o split_from(Tail(s), <<>>)
       ELSE split_from(Tail(s), Append(word, s[1]))

split(s) == split_from(s, <<>>)

\* a in b, for two str
str_in(a, b) ==
  \E i \in 0..(Len(b) - Len(a)) : SubSeq(b, i + 1, i + Len(a)) = a

contains_nonlatin(text) ==
  ~ \E i \in 1..Len(text) : text[i] \in string_printable

----------------------------------------------------------------------------
(* extract_names.py: the consensus and the refiners *)

\* the inner loop of fuzzy_intersect: one append per matching google_name
RECURSIVE fuzzy_matches(_, _)
fuzzy_matches(crude_name, google_names) ==
  IF google_names = <<>> THEN <<>>
  ELSE LET parts == SelectSeq(split(crude_name), LAMBDA part : str_in(part, Head(google_names)))
       IN  (IF parts # <<>> THEN <<crude_name>> ELSE <<>>)
             \o fuzzy_matches(crude_name, Tail(google_names))

RECURSIVE fuzzy_loop(_, _)
fuzzy_loop(google_names, crude_names) ==
  IF crude_names = <<>> THEN <<>>
  ELSE (IF contains_nonlatin(Head(crude_names))
        THEN <<Head(crude_names)>>
        ELSE fuzzy_matches(Head(crude_names), google_names))
         \o fuzzy_loop(google_names, Tail(crude_names))

fuzzy_intersect(google_names, crude_names) ==
  IF google_names = <<>> THEN crude_names
  ELSE fuzzy_loop(google_names, crude_names)

remove_nonlatin(names) == SelectSeq(names, LAMBDA name : ~contains_nonlatin(name))

remove_short(names) == SelectSeq(names, LAMBDA name : Len(name) > 2)

----------------------------------------------------------------------------
(* extract_names.py: the google extractor and its preprocessors *)

\* a Python tuple and a Python list are different values with the same items
py_tuple(items) == [type |-> "tuple", items |-> items]
py_list(items) == [type |-> "list", items |-> items]

\* str.isalpha() of one character
isalpha(c) == c \in {"a", "b", "B", "M", "y", "n", "m", "e", "i", "s", NonLatinChar}

RECURSIVE join(_, _)
join(words, sep) ==
  IF words = <<>> THEN <<>>
  ELSE IF Len(words) = 1 THEN words[1]
  ELSE words[1] \o sep \o join(Tail(words), sep)

\* google_analyze.extract_entities: the answer of the service for a text
extract_entities(latin_text) == kg[latin_text]

google_extract_names(text) ==
  LET latin_text == SelectSeq(text, LAMBDA c : c \in string_printable)
  IN  extract_entities(latin_text)

only_alpha(text) ==
  join(SelectSeq(split(text),
                 LAMBDA word : \A i \in 1..Len(word) :
                   isalpha(word[i]) \/ word[i] \in {"-", "/", "\\", "$", "%", "(", ")",
                                                    ",", ".", ":", ";", "?", "!"}),
       <<" ">>)

no_preprocess(text) == text

RECURSIVE my_name_is(_)
my_name_is(words) ==
  IF words = <<>> THEN <<>>
  ELSE <<"M", "y", " ", "n", "a", "m", "e", " ", "i", "s", " ">> \o Head(words)
         \o <<".", " ">> \o my_name_is(Tail(words))

every_name(text) == my_name_is(split(only_alpha(text)))

GOOGLE_PREPROCESSES(i, text) ==
  CASE i = 1 -> only_alpha(text)
    [] i = 2 -> no_preprocess(text)
    [] i = 3 -> every_name(text)

\* the i-th function of the inner list of GOOGLE_EXTRACTORS:
\* compose(google_extract_names, preprocess), the preprocessing applied first
composed_fns(i, text) == google_extract_names(GOOGLE_PREPROCESSES(i, text))

\* The i-th entry of GOOGLE_EXTRACTORS.  Its lambda reads the comprehension
\* variable composed_fn when it is called, after the comprehension has
\* finished, so every entry calls the last composed function; wraps() only
\* copies the metadata of the i-th one.  The lambda returns a tuple.
GOOGLE_EXTRACTORS(i, text) ==
  LET composed_fn == 3
  IN  py_tuple(<<text, composed_fns(composed_fn, text)>>)

\* all_capitalized_extract_names and nltk_extract_names act on the text; the
\* engine sees them through their results (stage2)

----------------------------------------------------------------------------
(* extract_names.py: the refiner combinations and the engine *)

\* wordnet.synsets(word): the words of the lexical database (external data)
\* with more than one synset
wordnet_common == { <<"b">> }

remove_synonyms(names) ==
  SelectSeq(names, LAMBDA name :
    ~ \E i \in 1..Len(split(name)) : split(name)[i] \in wordnet_common)

identity(names) == names

\* REFINERS: the identity, then reduce(compose, combination) for the
\* combinations of 1 and of 2 of UNIQUE_REFINERS
REFINERS(k, names) ==
  CASE k = 1 -> identity(names)
    [] k = 2 -> remove_short(names)
    [] k = 3 -> remove_synonyms(names)
    [] k = 4 -> remove_nonlatin(names)
    [] k = 5 -> remove_short(remove_synonyms(names))
    [] k = 6 -> remove_short(remove_nonlatin(names))
    [] k = 7 -> remove_synonyms(remove_nonlatin(names))

NumGoogle == 3
NumCrude == 2
NumRefiners == 7

\* mutation: the search gives up with a fallback list instead of an error
extract_names_fallback(text, min_names, max_names, google_extractors, crude_extractors, refiners) ==
  [raised |-> "none", names |-> <<>>, calls |-> <<>>]

\* extract_names.  Its first statement (lines 181-183) evaluates the
\* arguments of soft_filter; min_criteria is bound neither in the function
\* (the nested function is filter_min_criteria) nor in the module nor among
\* the names imported from utils, so every call raises NameError before any
\* generator is created and before any strategy is called.
extract_names(text, min_names, max_names, google_extractors, crude_extractors, refiners) ==
  [raised |-> "NameError", names |-> <<>>, calls |-> <<>>]

----------------------------------------------------------------------------
(* extract_names.py: the de-duplication loop of nltk_extract_names *)

\* itertools.permutations(range(n), 2): the index pairs in lexicographic order
permutations2(n) ==
  [k \in 1..(n * (n - 1)) |->
     LET i == ((k - 1) \div (n - 1)) + 1
         r == ((k - 1) % (n - 1)) + 1
     IN  <<i, IF r < i THEN r ELSE r + 1>>]

\* list.remove(x): drops the first item equal to x
RECURSIVE list_remove(_, _)
list_remove(names, x) ==
  IF names = <<>> THEN <<>>
  ELSE IF Head(names) = x THEN Tail(names)
       ELSE <<Head(names)>> \o list_remove(Tail(names), x)

list_contains(names, x) == \E i \in 1..Len(names) : names[i] = x

\* the for loop over permutations(names, 2): the pairs come from a snapshot
\* of names taken when the loop starts, the removals act on names itself
RECURSIVE remove_contained(_, _, _)
remove_contained(snapshot, pairs, names) ==
  IF pairs = <<>> THEN [raised |-> "none", names |-> names]
  ELSE LET name1 == snapshot[Head(pairs)[1]]
           name2 == snapshot[Head(pairs)[2]]
       IN  IF str_in(name1, name2)
           THEN IF list_contains(names, name1)
                THEN remove_contained(snapshot, Tail(pairs), list_remove(names, name1))
                ELSE [raised |-> "ValueError", names |-> names]
           ELSE remove_contained(snapshot, Tail(pairs), names)

nltk_dedup(names) == remove_contained(names, permutations2(Len(names)), names)

----------------------------------------------------------------------------
(* extract_info.py: records, labels, the output table and the metrics *)

\* class Flags, in declaration order
Flags == <<"correct", "too many", "not enough", "multiple contacts",
           "one_contact", "all", "skipped">>

Max(a, b) == IF a >= b THEN a ELSE b
Min(a, b) == IF a <= b THEN a ELSE b

min_max_names(emails, phones) ==
  LET contact_counts == <<Len(emails), Len(phones)>>
      min_names == Max(1, Min(contact_counts[1], contact_counts[2]))
      max_names == Max(contact_counts[1], contact_counts[2])
  IN  <<min_names, max_names>>

decide_exit_type(names, min_names, max_names) ==
  LET names_count == Len(names)
  IN  IF names_count <= max_names
      THEN (IF names_count < min_names THEN "not enough" ELSE "correct")
      ELSE "too many"

skipped_name == <<"s", "k", "i", "p", "p", "e", "d">>

\* mutation: the early return of the skipped case is lost
extract_info_noskip(raw_line, flags) ==
  LET line == SelectSeq(raw_line.text, LAMBDA c : c \notin {"'", "\n"})
      mm == min_max_names(raw_line.emails, raw_line.phones)
      engine == IF mm[2] = 0
                THEN [raised |-> "none", names |-> <<skipped_name>>, calls |-> <<>>]
                ELSE extract_names(space_dashes(line), mm[1], mm[2],
                                   NumGoogle, NumCrude, NumRefiners)
      result == [line |-> <<line>>, emails |-> raw_line.emails,
                 phones |-> raw_line.phones, names |-> engine.names]
  IN  [raised |-> engine.raised,
       engine_called |-> mm[2] # 0,
       stdout |-> IF engine.raised = "none" THEN << <<".">> >> ELSE <<>>,
       result |->
         IF flags
         THEN result @@ ("flags" :>
                << (IF mm[2] = 1 THEN "one_contact" ELSE "multiple contacts"),
                   decide_exit_type(engine.names, mm[1], mm[2]),
                   "all" >>)
         ELSE result]

\* extract_info.  A raw line is its text together with what EMAIL_RE.findall
\* and PhoneNumberMatcher(line, "US") find in it (library matching).  main
\* passes no strategy override, so the engine runs with its default lists.
extract_info(raw_line, flags) ==
  LET line == SelectSeq(raw_line.text, LAMBDA c : c \notin {"'", "\n"})
      emails == raw_line.emails
      phones == raw_line.phones
      mm == min_max_names(emails, phones)
      min_names == mm[1]
      max_names == mm[2]
      engine == IF max_names = 0
                THEN [raised |-> "none", names |-> <<skipped_name>>, calls |-> <<>>]
                ELSE extract_names(space_dashes(line), min_names, max_names,
                                   NumGoogle, NumCrude, NumRefiners)
      names == engine.names
      result == [line |-> <<line>>, emails |-> emails, phones |-> phones,
                 names |-> names]
  IN  [raised |-> engine.raised,
       engine_called |-> max_names # 0,
       \* the progress marker is printed after extract_names has returned
       stdout |-> IF engine.raised = "none" THEN << <<".">> >> ELSE <<>>,
       result |->
         IF flags
         THEN IF max_names = 0
              THEN result @@ ("flags" :> <<"skipped">>)
              ELSE result @@ ("flags" :>
                     << (IF max_names = 1 THEN "one_contact" ELSE "multiple contacts"),
                        decide_exit_type(names, min_names, max_names),
                        "all" >>)
         ELSE result]

\* zip_longest(*contact_infos, fillvalue=""): one row per index of the
\* longest column
entry_rows(entry) ==
  LET contact_infos == <<entry.line, entry.emails, entry.phones, entry.names>>
      longest == Max(Max(Len(contact_infos[1]), Len(contact_infos[2])),
                     Max(Len(contact_infos[3]), Len(contact_infos[4])))
  IN  [k \in 1..longest |->
         [c \in 1..4 |-> IF k <= Len(contact_infos[c]) THEN contact_infos[c][k] ELSE <<>>]]

RECURSIVE all_rows(_)
all_rows(es) ==
  IF es = <<>> THEN <<>> ELSE entry_rows(Head(es)) \o all_rows(Tail(es))

save_entries(es) == << <<"line", "emails", "phones", "names">> >> \o all_rows(es)

flag_in(flag, entry) == \E i \in 1..Len(entry.flags) : entry.flags[i] = flag

\* mutation: the counts are divided by the number of records
metrics_per_record(es) ==
  IF \E i \in 1..Len(es) : "flags" \notin DOMAIN es[i]
  THEN [raised |-> "KeyError", stdout |-> <<>>]
  ELSE LET counts == [f \in 1..Len(Flags) |->
                        Len(SelectSeq(es, LAMBDA entry : flag_in(Flags[f], entry)))]
       IN  IF Len(es) = 0
           THEN [raised |-> "ZeroDivisionError", stdout |-> <<>>]
           ELSE [raised |-> "none",
                 stdout |-> [f \in 1..4 |-> <<Flags[f], counts[f], Len(es)>>]]

\* metrics.  A printed percentage is kept as <<label, count, count of all>>.
metrics(es) ==
  IF \E i \in 1..Len(es) : "flags" \notin DOMAIN es[i]
  THEN [raised |-> "KeyError", stdout |-> <<>>]
  ELSE LET counts == [f \in 1..Len(Flags) |->
                        Len(SelectSeq(es, LAMBDA entry : flag_in(Flags[f], entry)))]
           all == counts[6]
       IN  IF all = 0
           THEN [raised |-> "ZeroDivisionError", stdout |-> <<>>]
           ELSE [raised |-> "none",
                 stdout |-> [f \in 1..4 |-> <<Flags[f], counts[f], all>>]]

----------------------------------------------------------------------------
(* Idle values of the variables a specification does not use *)

IdleDash == dtext = <<>> /\ dout = <<>>
IdleCons == fi_google = <<>> /\ fi_crude = <<>> /\ fi_out = <<>> /\ rn_out = <<>>
IdleNltk == collected = <<>> /\ dedup = <<>>
IdleGoog == gtext = <<>> /\ kg = <<>> /\ gret = <<>>
IdleEng  == stage1 = <<>> /\ stage2 = <<>> /\ window = <<>> /\ eret = <<>> /\ log = <<>>
IdleMain == lines = <<>> /\ dnames = <<>> /\ entries = <<>> /\ table = <<>> /\ printed = <<>> /\ mret = <<>>

----------------------------------------------------------------------------
(* Specification of space_dashes applied once and then to its own result *)

InitDashes ==
  /\ pc = "space_dashes"
  /\ dtext \in SeqsUpTo(DashChars, MaxLen)
  /\ dout = <<>>
  /\ IdleCons /\ IdleNltk /\ IdleGoog /\ IdleEng /\ IdleMain

SpaceDashes ==
  /\ pc = "space_dashes"
  /\ dout = <<>>
  /\ dout' = <<space_dashes(dtext)>>
  /\ UNCHANGED <<pc, dtext, consVars, nltkVars, googVars, engVars, mainVars>>

SpaceDashesAgain ==
  /\ pc = "space_dashes"
  /\ Len(dout) = 1
  /\ dout' = Append(dout, space_dashes(dout[1]))
  /\ UNCHANGED <<pc, dtext, consVars, nltkVars, googVars, engVars, mainVars>>

NextDashes == SpaceDashes \/ SpaceDashesAgain

SpecDashes == InitDashes /\ [][NextDashes]_vars

\* every "-" of s has a space, a "-" or the boundary of s on each side
DashesSpaced(s) ==
  \A i \in 1..Len(s) :
    s[i] = "-" =>
      /\ (i = 1 \/ s[i - 1] \in {" ", "-"})
      /\ (i = Len(s) \/ s[i + 1] \in {" ", "-"})

\* C5: space_dashes is idempotent, and after one application every "-" is
\* preceded by a space, a "-" or the start of the text and followed by a
\* space, a "-" or the end of the text.
C5_Idempotent ==
  /\ Len(dout) >= 1 => DashesSpaced(dout[1])
  /\ Len(dout) = 2 => dout[2] = dout[1]

\* a text with a run of dashes and a dash next to a tab, transformed twice
C5_Witness ==
  /\ Len(dout) = 2
  /\ dout[1] # dtext
  /\ \E i \in 1..(Len(dtext) - 1) : dtext[i] = "-" /\ dtext[i + 1] = "-"
  /\ \E i \in 1..(Len(dtext) - 1) : dtext[i] = "\t" /\ dtext[i + 1] = "-"

----------------------------------------------------------------------------
(* Specification of fuzzy_intersect and remove_nonlatin on name lists *)

NameSet == { <<"a">>, <<"b">>, <<"a", " ", "b">>, <<"a", "b", "a">>,
             <<NonLatinChar>>, <<"a", NonLatinChar>> }

InitConsensus ==
  /\ pc = "refine"
  /\ fi_google \in SeqsUpTo(NameSet, MaxNames)
  /\ fi_crude \in SeqsUpTo(NameSet, MaxNames)
  /\ fi_out = <<>>
  /\ rn_out = <<>>
  /\ IdleDash /\ IdleNltk /\ IdleGoog /\ IdleEng /\ IdleMain

FuzzyIntersect ==
  /\ pc = "refine"
  /\ fi_out = <<>>
  /\ fi_out' = <<fuzzy_intersect(fi_google, fi_crude)>>
  /\ UNCHANGED <<pc, fi_google, fi_crude, rn_out, dashVars, nltkVars, googVars, engVars, mainVars>>

RemoveNonlatin ==
  /\ pc = "refine"
  /\ rn_out = <<>>
  /\ rn_out' = <<remove_nonlatin(fi_crude)>>
  /\ UNCHANGED <<pc, fi_google, fi_crude, fi_out, dashVars, nltkVars, googVars, engVars, mainVars>>

NextConsensus == FuzzyIntersect \/ RemoveNonlatin

SpecConsensus == InitConsensus /\ [][NextConsensus]_vars

\* sub is obtained from full by dropping items (order kept, nothing repeated)
RECURSIVE IsSubList(_, _)
IsSubList(sub, full) ==
  IF sub = <<>> THEN TRUE
  ELSE IF full = <<>> THEN FALSE
  ELSE IF Head(sub) = Head(full)
       THEN IsSubList(Tail(sub), Tail(full)) \/ IsSubList(sub, Tail(full))
       ELSE IsSubList(sub, Tail(full))

\* C7: the consensus returned by fuzzy_intersect is an order-preserving
\* sub-list of the local list (each local name kept at most once), so it is
\* never longer than the local list.
C7_ConsensusIsSubList ==
  fi_out # <<>> =>
    /\ IsSubList(fi_out[1], fi_crude)
    /\ Len(fi_out[1]) <= Len(fi_crude)

has_char_outside_printable(name) ==
  \E i \in 1..Len(name) : name[i] \notin string_printable

\* C9: remove_nonlatin removes a name if and only if the name has at least
\* one character outside the printable-Latin set, and the consensus lets a
\* local name pass unchecked on that same test.
C9_RemovesIffAnyNonlatin ==
  rn_out # <<>> =>
    /\ rn_out[1] = SelectSeq(fi_crude, LAMBDA name : ~has_char_outside_printable(name))
    /\ \A i \in 1..Len(fi_crude) :
         contains_nonlatin(fi_crude[i]) <=> has_char_outside_printable(fi_crude[i])

----------------------------------------------------------------------------
(* Specification of the de-duplication of the names nltk_extract_names collects *)

InitNltk ==
  /\ pc = "nltk_extract_names"
  /\ collected \in SeqsUpTo(NameSet, MaxCollected)
  /\ dedup = <<>>
  /\ IdleDash /\ IdleCons /\ IdleGoog /\ IdleEng /\ IdleMain

RemoveContained ==
  /\ pc = "nltk_extract_names"
  /\ dedup = <<>>
  /\ dedup' = <<nltk_dedup(collected)>>
  /\ pc' = "returned"
  /\ UNCHANGED <<collected, dashVars, consVars, googVars, engVars, mainVars>>

NextNltk == RemoveContained

SpecNltk == InitNltk /\ [][NextNltk]_vars

strict_substring_of_another(names, i) ==
  \E j \in 1..Len(names) :
    j # i /\ names[i] # names[j] /\ str_in(names[i], names[j])

RECURSIVE keep_indices(_, _)
keep_indices(names, i) ==
  IF i > Len(names) THEN <<>>
  ELSE (IF strict_substring_of_another(names, i) THEN <<>> ELSE <<names[i]>>)
         \o keep_indices(names, i + 1)

\* C8: the de-duplication completes without error and returns exactly the
\* collected names that are not a strict substring of another collected
\* name, in their original order.
C8_DedupStrictSubstrings ==
  dedup # <<>> =>
    /\ dedup[1].raised = "none"
    /\ dedup[1].names = keep_indices(collected, 1)

----------------------------------------------------------------------------
(* Specification of the entries of GOOGLE_EXTRACTORS called on a text *)

GoogChars == {"B", "4", " ", NonLatinChar}

EntityLists == { <<>>, << <<"B">> >>, << <<"B">>, <<"B", " ", "B">> >> }

\* the texts the three preprocessing variants submit to the service
Submitted(text) ==
  { SelectSeq(GOOGLE_PREPROCESSES(i, text), LAMBDA c : c \in string_printable) :
      i \in 1..NumGoogle }

InitGoogle ==
  /\ pc = "google"
  /\ gtext \in SeqsUpTo(GoogChars, MaxText)
  /\ kg \in [Submitted(gtext) -> EntityLists]
  /\ gret = <<>>
  /\ IdleDash /\ IdleCons /\ IdleNltk /\ IdleEng /\ IdleMain

CallGoogleExtractors ==
  /\ pc = "google"
  /\ gret = <<>>
  /\ gret' = [i \in 1..NumGoogle |-> GOOGLE_EXTRACTORS(i, gtext)]
  /\ pc' = "returned"
  /\ UNCHANGED <<gtext, kg, dashVars, consVars, nltkVars, engVars, mainVars>>

NextGoogle == CallGoogleExtractors

SpecGoogle == InitGoogle /\ [][NextGoogle]_vars

\* C6: the i-th entry of GOOGLE_EXTRACTORS returns exactly the name list the
\* client adapter produces for the i-th preprocessing variant of the text
\* (1 only_alpha, 2 no_preprocess, 3 every_name).
C6_ExtractorPerVariant ==
  gret # <<>> =>
    \A i \in 1..NumGoogle :
      /\ gret[i].type = "list"
      /\ gret[i].items = google_extract_names(GOOGLE_PREPROCESSES(i, gtext))

----------------------------------------------------------------------------
(* Specification of one call of extract_names *)

Stage1Lists == { <<>>, << <<"a">> >>, << <<"a", " ", "b">>, <<"b">> >> }

Stage2Lists == { <<>>, << <<"a">> >>, << <<"a">>, <<"b">> >>,
                 << <<"a">>, <<"b">>, <<"a", "b", "a">> >> }

InitEngine ==
  /\ pc = "extract_names"
  /\ stage1 \in [1..NumGoogle -> Stage1Lists]
  /\ stage2 \in [1..NumCrude -> Stage2Lists]
  /\ window \in (1..MaxContacts) \X (1..MaxContacts)
  /\ eret = <<>>
  /\ log = <<>>
  /\ IdleDash /\ IdleCons /\ IdleNltk /\ IdleGoog /\ IdleMain

\* a call with logging copies of the strategies: the logger appends the name
\* of every strategy the call runs
ExtractNames ==
  /\ pc = "extract_names"
  /\ eret = <<>>
  /\ LET r == extract_names("text", window[1], window[2], stage1, stage2, NumRefiners)
     IN  /\ eret' = <<[raised |-> r.raised, names |-> r.names]>>
         /\ log' = log \o r.calls
  /\ pc' = "returned"
  /\ UNCHANGED <<stage1, stage2, window, dashVars, consVars, nltkVars, googVars, mainVars>>

NextEngine == ExtractNames

SpecEngine == InitEngine /\ [][NextEngine]_vars

InWindow(names) == window[1] <= Len(names) /\ Len(names) <= window[2]

\* refine_k(consensus(stage1_i(text), stage2_j(text)))
Triple(i, j, k) == REFINERS(k, fuzzy_intersect(stage1[i], stage2[j]))

Hits ==
  { t \in (1..NumGoogle) \X (1..NumCrude) \X (1..NumRefiners) :
      InWindow(Triple(t[1], t[2], t[3])) }

LexLeq(t, u) ==
  \/ t[1] < u[1]
  \/ t[1] = u[1] /\ t[2] < u[2]
  \/ t[1] = u[1] /\ t[2] = u[2] /\ t[3] <= u[3]

FirstHit == CHOOSE t \in Hits : \A u \in Hits : LexLeq(t, u)

C2_FirstTripleReturned ==
  (eret # <<>> /\ Hits # {}) =>
    /\ eret[1].raised = "none"
    /\ eret[1].names = Triple(FirstHit[1], FirstHit[2], FirstHit[3])

\* tests/test_extract_info.py: the strategy names of the three steps.  The
\* functions built by utils.compose are given distinct names here.
STEPS_STRATEGY_NAMES ==
  << <<"google_1", "google_2", "google_3">>,
     <<"nltk_extract_names", "all_capitalized_extract_names">>,
     <<"<lambda>", "remove_short", "remove_synonyms", "remove_nonlatin",
       "refine_5", "refine_6", "refine_7">> >>

\* correct_pattern_gen, as the set of name sequences the pattern accepts;
\* suffix is the set the suffix pattern accepts
RECURSIVE correct_pattern_gen(_, _)
correct_pattern_gen(items, suffix) ==
  IF Len(items) = 1
  THEN { <<items[1]>> \o rest : rest \in suffix }
  ELSE { <<items[1]>> \o rest :
           rest \in suffix \cup correct_pattern_gen(Tail(items), suffix) }

CORRECT_PATTERN ==
  correct_pattern_gen(STEPS_STRATEGY_NAMES[1],
    correct_pattern_gen(STEPS_STRATEGY_NAMES[2],
      correct_pattern_gen(STEPS_STRATEGY_NAMES[3], {<<>>})))

\* C3: the complete logged sequence of strategy names of a run is accepted
\* by the pattern built by correct_pattern_gen from the ordered stage lists.
C3_LogMatchesPattern ==
  eret # <<>> => log \in CORRECT_PATTERN

----------------------------------------------------------------------------
(* Specification of the batch tool: main, and direct calls of metrics and   *)
(* of decide_exit_type                                                      *)

Emails == SeqsUpTo({"e@x.org"}, MaxContacts)
Phones == SeqsUpTo({"+1 650-253-0000"}, MaxContacts)

RawLines ==
  [text : { <<"a", "-", "b">>, <<"a", "'", "b", "\n">> }, emails : Emails, phones : Phones]

\* records as extract_info(..., flags=True) builds them
LabelledEntries ==
  { [line |-> <<<<"a">>>>, emails |-> <<>>, phones |-> <<>>,
     names |-> <<skipped_name>>, flags |-> <<"skipped">>],
    [line |-> <<<<"a">>>>, emails |-> <<"e@x.org">>, phones |-> <<>>,
     names |-> << <<"a">> >>, flags |-> <<"one_contact", "correct", "all">>],
    [line |-> <<<<"a">>>>, emails |-> <<"e@x.org", "e@x.org">>, phones |-> <<>>,
     names |-> <<>>, flags |-> <<"multiple contacts", "not enough", "all">>],
    [line |-> <<<<"a">>>>, emails |-> <<"e@x.org">>, phones |-> <<>>,
     names |-> << <<"a">>, <<"b">> >>, flags |-> <<"one_contact", "too many", "all">>] }

InitMain ==
  /\ pc = "main_extract"
  /\ lines \in SeqsUpTo(RawLines, MaxLines)
  /\ dnames = <<>>
  /\ entries = <<>>

InitMetrics ==
  /\ pc = "metrics"
  /\ lines = <<>>
  /\ dnames = <<>>
  /\ entries \in SeqsUpTo(LabelledEntries, MaxEntries)

InitDecide ==
  /\ pc = "decide_exit_type"
  /\ lines \in {<<l>> : l \in RawLines}
  /\ dnames \in SeqsUpTo({<<"a">>}, MaxContacts + 1)
  /\ entries = <<>>

Init ==
  /\ InitMain \/ InitMetrics \/ InitDecide
  /\ table = <<>>
  /\ printed = <<>>
  /\ mret = <<>>
  /\ eret = <<>>
  /\ stage1 = <<>> /\ stage2 = <<>> /\ window = <<>> /\ log = <<>>
  /\ IdleDash /\ IdleCons /\ IdleNltk /\ IdleGoog

\* one iteration of the list comprehension of main; eret collects the calls
\* of the engine with the number of the line they were made for
ExtractInfo ==
  /\ pc = "main_extract"
  /\ lines # <<>>
  /\ LET r == extract_info(Head(lines), TRUE)
     IN  /\ eret' = IF r.engine_called
                    THEN Append(eret, [lineno |-> Len(entries) + 1, raised |-> r.raised])
                    ELSE eret
         /\ printed' = printed \o r.stdout
         /\ IF r.raised = "none"
            THEN /\ entries' = Append(entries, r.result)
                 /\ lines' = Tail(lines)
                 /\ UNCHANGED <<pc, mret>>
            ELSE /\ pc' = "main_raised"
                 /\ mret' = <<[raised |-> r.raised, by |-> "extract_info"]>>
                 /\ UNCHANGED <<entries, lines>>
  /\ UNCHANGED <<dnames, table, stage1, stage2, window, log,
                 dashVars, consVars, nltkVars, googVars>>

SaveEntries ==
  /\ pc = "main_extract"
  /\ lines = <<>>
  /\ table' = save_entries(entries)
  /\ pc' = "main_metrics"
  /\ UNCHANGED <<lines, dnames, entries, printed, mret, engVars,
                 dashVars, consVars, nltkVars, googVars>>

Metrics ==
  /\ pc \in {"main_metrics", "metrics"}
  /\ LET r == metrics(entries)
     IN  /\ printed' = printed \o r.stdout
         /\ mret' = <<[raised |-> r.raised, by |-> "metrics"]>>
         /\ pc' = IF pc = "metrics" THEN "metrics_returned"
                  ELSE IF r.raised = "none" THEN "main_done" ELSE "main_raised"
  /\ UNCHANGED <<lines, dnames, entries, table, engVars,
                 dashVars, consVars, nltkVars, googVars>>

DecideExitType ==
  /\ pc = "decide_exit_type"
  /\ LET mm == min_max_names(lines[1].emails, lines[1].phones)
     IN  mret' = <<[raised |-> "none", by |-> "decide_exit_type",
                    window |-> mm,
                    flag |-> decide_exit_type(dnames, mm[1], mm[2])]>>
  /\ pc' = "decided"
  /\ UNCHANGED <<lines, dnames, entries, table, printed, engVars,
                 dashVars, consVars, nltkVars, googVars>>

Next == ExtractInfo \/ SaveEntries \/ Metrics \/ DecideExitType

Spec == Init /\ [][Next]_vars

InMain == pc \in {"main_extract", "main_metrics", "main_done", "main_raised"}

\* classify of the specification: too_many above the window, not_enough
\* below it, correct inside it
classify(n, lo, hi) ==
  IF n > hi THEN "too many" ELSE IF n < lo THEN "not enough" ELSE "correct"

window_lo(e, p) == IF e = 0 \/ p = 0 THEN 1 ELSE (IF e < p THEN e ELSE p)
window_hi(e, p) == IF e > p THEN e ELSE p

LabelsShape(i) ==
  LET r == entries[i]
      e == Len(r.emails)
      p == Len(r.phones)
  IN  /\ "flags" \in DOMAIN r
      /\ IF e = 0 /\ p = 0
         THEN /\ r.flags = <<"skipped">>
              /\ r.names = <<skipped_name>>
              /\ \A c \in 1..Len(eret) : eret[c].lineno # i
         ELSE /\ Len(r.flags) = 3
              /\ r.flags[1] = (IF window_hi(e, p) = 1 THEN "one_contact"
                               ELSE "multiple contacts")
              /\ r.flags[2] = classify(Len(r.names), window_lo(e, p), window_hi(e, p))
              /\ r.flags[3] = "all"

\* C4: a record produced with labels requested carries exactly [skipped],
\* exactly when its line has no email and no phone (names is then the
\* sentinel and the engine is not called), and otherwise exactly three
\* labels: one_contact or multiple_contacts (one_contact iff max_names = 1),
\* then the label classify gives, then all.
C4_LabelShapes ==
  /\ InMain => \A i \in 1..Len(entries) : LabelsShape(i)
  /\ pc = "decided" =>
       /\ mret[1].window = <<window_lo(Len(lines[1].emails), Len(lines[1].phones)),
                             window_hi(Len(lines[1].emails), Len(lines[1].phones))>>
       /\ mret[1].flag = classify(Len(dnames), mret[1].window[1], mret[1].window[2])

\* two lines without contacts were processed and labelled
C4_Witness ==
  /\ pc = "main_metrics"
  /\ Len(entries) = 2
  /\ entries[2].flags = <<"skipped">>
  /\ eret = <<>>

RowCount(r) == Max(Max(Len(r.emails), Len(r.phones)), Max(Len(r.names), 1))

RECURSIVE SumRows(_)
SumRows(es) == IF es = <<>> THEN 0 ELSE RowCount(Head(es)) + SumRows(Tail(es))

CountAll == Len(SelectSeq(entries, LAMBDA r : flag_in("all", r)))

Percentages == SelectSeq(printed, LAMBDA item : Len(item) = 3)

\* C10: metrics divides every printed count by the number of records
\* labelled all: it prints the four percentages only when some record is
\* labelled all, and fails with a division by zero for an empty batch and
\* for a batch whose lines are all skipped; in main that failure comes after
\* the output table has been written in full.
C10_MetricsDivideByAll ==
  (mret # <<>> /\ mret[1].by = "metrics") =>
    /\ mret[1].raised = "none" =>
         /\ CountAll > 0
         /\ Len(Percentages) = 4
         /\ \A k \in 1..4 : Percentages[k][1] = Flags[k] /\ Percentages[k][3] = CountAll
    /\ CountAll = 0 =>
         /\ mret[1].raised = "ZeroDivisionError"
         /\ Percentages = <<>>
    /\ (InMain /\ mret[1].raised = "ZeroDivisionError") =>
         /\ Len(table) = 1 + SumRows(entries)
         /\ table[1] = <<"line", "emails", "phones", "names">>

\* main failed in metrics on a batch of skipped lines, the table written
C10_Witness ==
  /\ pc = "main_raised"
  /\ mret[1].by = "metrics"
  /\ mret[1].raised = "ZeroDivisionError"
  /\ Len(entries) = 2
  /\ Len(table) = 3

====
